---- MODULE Spec2Model ----
(***************************************************************************)
(* graphAttack: the layer builders of gaUtilities/neuralNetwork.py and the *)
(* control script controlTrainCNN.py (graph construction, fprime, training *)
(* and report).                                                            *)
(*                                                                         *)
(* A node of the computation graph is a record                             *)
(*   [op, inputs, shape, doGradient, init]                                 *)
(* and is identified by its position in mainGraph.operations.  The graph   *)
(* container, the operation classes and the parameter initialiser live in  *)
(* modules of the package that are imported by the two source files; they  *)
(* are modelled here from their documented contracts.                      *)
(***************************************************************************)
EXTENDS Integers, Sequences, FiniteSets, TLC

VARIABLES
    mainGraph,   \* the ga.Graph the builders append to
    lastCall,    \* the most recent layer-builder call: arguments, graph before, outcome
    nLayers,     \* number of layer-builder calls made on mainGraph
    store,       \* run-time state of the graph's nodes: cached forward results,
                 \* gradients, the labels bound to the cost node
    pc,          \* position inside fprime (0: not in a call)
    call,        \* fprime's arguments and locals: p, data, labels, c, g
    steps,       \* the graph methods the current fprime call has invoked so far
    returned,    \* the value fprime returned last, with the call's arguments
    ref,         \* an earlier fprime call and what it returned
    dataset,     \* sizes of the train / validation / test splits once loaded
    scriptPc,    \* the statement of controlTrainCNN.py to run next
    scriptError, \* the exception that ended the script ("none": still running)
    scriptEnv,   \* the script's module-level names bound to graph nodes
    defined,     \* the module-level names bound so far
    stdout       \* what the script has printed

\* ------------------------------------------------------ script constants

\* dropValueL = 0.1 and dropValueS = 0.05, in hundredths
dropValueL == 10
dropValueS == 5

\* ---------------------------------------------------------------- bounds

\* number of layer-builder calls made on one graph
MaxLayers == 2

\* shapes of the data held by the feeder: (batch, features) and
\* (batch, channels, height, width)
FeederShapes == {<<8, 500>>, <<2, 3>>, <<8, 1, 28, 28>>, <<2, 3, 6, 4>>}

\* argument values the layer builders are called with
DenseOutputs == {0, 3, 10}
Activations == {"ReLUActivation", "SoftmaxActivation"}
DropoutRates == {0, dropValueL}
FilterCounts == {20}
FilterSizes == {<<5, 5>>, <<1, 2>>}
PaddingArgs == {"SAME", "VALID", "SOME"}
ConvStrides == {1, 2}
PoolConfigs == {<<2, 2, 2>>, <<1, 2, 1>>}

\* numbers of examples in a split of the data set
SplitSizes == {2, 4, 8}

\* what the optimiser hands to fprime: parameter vectors, mini-batches of
\* data and of labels; and the outcomes of the random draws of one pass
ParamVectors == {1, 2}
MiniBatches == {1, 2}
LabelBatches == {1, 2}
RandomDraws == {1, 2}

\* ------------------------------------------------------- python values

\* inputOperation=None
None == 0

NoInit == [gen |-> "none", shape |-> <<>>, transpose |-> FALSE, nInputs |-> 0]

EmptyGraph ==
    [operations |-> <<>>, gradientOps |-> <<>>,
     feederOperation |-> None, finalOperation |-> None]

\* ------------------------------------------------ graph container (ga.Graph)

\* Graph.addOperation(operation, doGradient=False, finalOperation=False,
\*                    feederOperation=False): appends the node, records it as
\* trainable / final / feeder, returns the graph (the node is the last operation)
addOperation(g, node, doGradient, finalOperation, feederOperation) ==
    LET id == Len(g.operations) + 1 IN
    [operations      |-> Append(g.operations, [node EXCEPT !.doGradient = doGradient]),
     gradientOps     |-> IF doGradient THEN Append(g.gradientOps, id) ELSE g.gradientOps,
     feederOperation |-> IF feederOperation THEN id ELSE g.feederOperation,
     finalOperation  |-> IF finalOperation THEN id ELSE g.finalOperation]

Last(g) == Len(g.operations)

\* ------------------------------------------------------ operation nodes

Node(op, inputs, shape) ==
    [op |-> op, inputs |-> inputs, shape |-> shape, doGradient |-> FALSE, init |-> NoInit]

\* ga.Variable(X): a data holder of the shape of X
Variable(shape) ==
    [op |-> "Variable", inputs |-> <<>>, shape |-> shape, doGradient |-> FALSE,
     init |-> [gen |-> "data", shape |-> shape, transpose |-> FALSE, nInputs |-> 0]]

Reverse(s) == [i \in 1..Len(s) |-> s[Len(s) + 1 - i]]

AllPositive(shape) == \A i \in 1..Len(shape) : shape[i] > 0

\* misc.generateRandomVariable(shape, transpose=False, nInputs=None): a Variable
\* of random values scaled by the fan-in nInputs, stored transposed when asked;
\* a non-positive dimension is a ShapeError
generateRandomVariable(shape, transpose, nInputs) ==
    IF ~AllPositive(shape)
    THEN [raised |-> "ShapeError", node |-> Variable(<<>>)]
    ELSE [raised |-> "none",
          node |-> [op |-> "Variable", inputs |-> <<>>,
                    shape |-> IF transpose THEN Reverse(shape) ELSE shape,
                    doGradient |-> FALSE,
                    init |-> [gen |-> "random", shape |-> shape,
                              transpose |-> transpose, nInputs |-> nInputs]]]

\* misc.generateZeroVariable(shape, transpose=False): a Variable of zeros
generateZeroVariable(shape, transpose) ==
    IF ~AllPositive(shape)
    THEN [raised |-> "ShapeError", node |-> Variable(<<>>)]
    ELSE [raised |-> "none",
          node |-> [op |-> "Variable", inputs |-> <<>>,
                    shape |-> IF transpose THEN Reverse(shape) ELSE shape,
                    doGradient |-> FALSE,
                    init |-> [gen |-> "zero", shape |-> shape,
                              transpose |-> transpose, nInputs |-> 0]]]

\* MatMatmulOperation(a, b): (N, D) x (D, M) -> (N, M)
MatMatmulOperation(g, a, b) ==
    LET sa == g.operations[a].shape
        sb == g.operations[b].shape
    IN  IF Len(sa) = 2 /\ Len(sb) = 2 /\ sa[2] = sb[1]
        THEN [raised |-> "none", node |-> Node("MatMatmul", <<a, b>>, <<sa[1], sb[2]>>)]
        ELSE [raised |-> "ShapeError", node |-> Node("MatMatmul", <<a, b>>, <<>>)]

\* AddOperation(a, b): b is broadcast onto a
AddOperation(g, a, b) == Node("Add", <<a, b>>, g.operations[a].shape)

\* DropoutOperation(a, dropoutRate): same shape
DropoutOperation(g, a, dropoutRate) == Node("Dropout", <<a>>, g.operations[a].shape)

\* BatchNormalisationOperation(a, beta, gamma): same shape
BatchNormalisationOperation(g, a, beta, gamma) ==
    Node("BatchNormalisation", <<a, beta, gamma>>, g.operations[a].shape)

\* activation(a), activation one of ReLUActivation, SoftmaxActivation: same shape
Activation(g, activation, a) == Node(activation, <<a>>, g.operations[a].shape)

\* FlattenFeaturesOperation(a): (N, C, H, W) -> (N, C*H*W)
FlattenFeaturesOperation(g, a) ==
    LET s == g.operations[a].shape IN
    IF Len(s) = 4
    THEN [raised |-> "none", node |-> Node("Flatten", <<a>>, <<s[1], s[2] * s[3] * s[4]>>)]
    ELSE [raised |-> "ShapeError", node |-> Node("Flatten", <<a>>, <<>>)]

Paddings == {"SAME", "VALID"}

\* Conv2dOperation(a, filter, stride, paddingMethod).  An unrecognised padding
\* mode is a ConfigurationError; "SAME" keeps the spatial dimensions, "VALID"
\* shrinks them by the filter size - 1 (a filter larger than the input is a
\* ShapeError)
Conv2dOperation(g, a, filter, stride, paddingMethod) ==
    LET s == g.operations[a].shape
        f == g.operations[filter].shape
        bad(exc) == [raised |-> exc, node |-> Node("Conv2d", <<a, filter>>, <<>>)]
    IN  IF paddingMethod \notin Paddings \/ stride <= 0 THEN bad("ConfigurationError")
        ELSE IF Len(s) # 4 \/ Len(f) # 4 \/ s[2] # f[2] THEN bad("ShapeError")
        ELSE IF paddingMethod = "SAME"
        THEN [raised |-> "none",
              node |-> Node("Conv2d", <<a, filter>>, <<s[1], f[1], s[3], s[4]>>)]
        ELSE IF f[3] > s[3] \/ f[4] > s[4] THEN bad("ShapeError")
        ELSE [raised |-> "none",
              node |-> Node("Conv2d", <<a, filter>>,
                            <<s[1], f[1], (s[3] - f[3]) \div stride + 1,
                                          (s[4] - f[4]) \div stride + 1>>)]

\* pooling(inputA, poolHeight, poolWidth, stride), pooling = MaxPoolOperation:
\* the window slides over the spatial dimensions with the given stride
MaxPoolOperation(g, a, poolHeight, poolWidth, stride) ==
    LET s == g.operations[a].shape
        bad(exc) == [raised |-> exc, node |-> Node("MaxPool", <<a>>, <<>>)]
    IN  IF poolHeight <= 0 \/ poolWidth <= 0 \/ stride <= 0 THEN bad("ConfigurationError")
        ELSE IF Len(s) # 4 \/ poolHeight > s[3] \/ poolWidth > s[4] THEN bad("ShapeError")
        ELSE [raised |-> "none",
              node |-> Node("MaxPool", <<a>>,
                            <<s[1], s[2], (s[3] - poolHeight) \div stride + 1,
                                          (s[4] - poolWidth) \div stride + 1>>)]

\* ------------------------------------------- neuralNetwork.addDenseLayer

\* A builder runs statement by statement on its frame: the graph, the
\* function's local names (nodes are held by their identity in the graph),
\* the value returned and the exception raised.  A statement that raises
\* ends the call and leaves the graph as it is at that point.  Where one
\* statement's result feeds the next, CHOOSE y \in {F(x) : x \in {e}} : TRUE
\* is F applied to the value of e.
DenseFrame(g, inputOperation) ==
    [graph |-> g, raised |-> "none", ret |-> None,
     inputOperation |-> inputOperation, D |-> 0,
     w |-> Variable(<<>>), b |-> Variable(<<>>),
     wo |-> None, bo |-> None, mmo |-> None, addo |-> None, dpo |-> None,
     beta |-> None, gamma |-> None, bnorm |-> None, acto |-> None]

Raised(f, exc) == [f EXCEPT !.raised = exc]

\* the weight of lines 51-52 stored as generated, with transpose=True dropped
DenseWeightNotTransposed(nOutputNodes, D) ==
    generateRandomVariable(<<nOutputNodes, D>>, FALSE, D)

\* lines 51-52: w = generateRandomVariable(shape=(nOutputNodes, D),
\*                                           transpose=True, nInputs=D)
DenseWeight(nOutputNodes, D) == generateRandomVariable(<<nOutputNodes, D>>, TRUE, D)

\* the bias of lines 53-54 created by generateZeroVariable instead
DenseBiasZero(nOutputNodes) == generateZeroVariable(<<nOutputNodes>>, FALSE)

\* lines 53-54: b = generateRandomVariable(shape=nOutputNodes,
\*                                           transpose=False, nInputs=1)
DenseBias(nOutputNodes) == generateRandomVariable(<<nOutputNodes>>, FALSE, 1)

\* lines 66-71 with the test written dropoutRate >= 0
DenseDropoutAlways(f, dropoutRate) ==
    IF dropoutRate >= 0
    THEN LET g == addOperation(f.graph, DropoutOperation(f.graph, f.addo, dropoutRate),
                               FALSE, FALSE, FALSE)
         IN  [f EXCEPT !.graph = g, !.dpo = Len(f.graph.operations) + 1]
    ELSE [f EXCEPT !.dpo = f.addo]

\* lines 66-71: the dropout node is registered only when dropoutRate > 0,
\* otherwise dpo is addo itself
DenseDropout(f, dropoutRate) ==
    IF dropoutRate > 0
    THEN LET g == addOperation(f.graph, DropoutOperation(f.graph, f.addo, dropoutRate),
                               FALSE, FALSE, FALSE)
         IN  [f EXCEPT !.graph = g, !.dpo = Len(f.graph.operations) + 1]
    ELSE [f EXCEPT !.dpo = f.addo]

\* lines 80-82 with doGradient=True
DenseActivationTrainable(f, activation) ==
    [f EXCEPT !.graph = addOperation(f.graph, Activation(f.graph, activation, f.bnorm),
                                     TRUE, FALSE, FALSE),
              !.acto = Len(f.graph.operations) + 1]

\* lines 80-82: acto = mainGraph.addOperation(activation(bnorm),
\*                                            doGradient=False, finalOperation=False)
DenseActivation(f, activation) ==
    [f EXCEPT !.graph = addOperation(f.graph, Activation(f.graph, activation, f.bnorm),
                                     FALSE, FALSE, FALSE),
              !.acto = Len(f.graph.operations) + 1]

\* the statements of addDenseLayer, lines 47-83, in program order
DenseStmt(k, f, nOutputNodes, activation, dropoutRate, batchNormalisation) ==
    CASE k = 1 ->   \* 47: N, D = inputOperation.shape
           IF f.inputOperation = None THEN Raised(f, "AttributeError")
           ELSE IF Len(f.graph.operations[f.inputOperation].shape) # 2
                THEN Raised(f, "ValueError")
           ELSE [f EXCEPT !.D = f.graph.operations[f.inputOperation].shape[2]]
      [] k = 2 ->   \* 48-49: if (inputOperation is None): ... = operations[-1]
           IF f.inputOperation = None
           THEN [f EXCEPT !.inputOperation = Last(f.graph)] ELSE f
      [] k = 3 ->   \* 51-52
           LET w == DenseWeight(nOutputNodes, f.D) IN
           IF w.raised # "none" THEN Raised(f, w.raised) ELSE [f EXCEPT !.w = w.node]
      [] k = 4 ->   \* 53-54
           LET b == DenseBias(nOutputNodes) IN
           IF b.raised # "none" THEN Raised(f, b.raised) ELSE [f EXCEPT !.b = b.node]
      [] k = 5 ->   \* 56: wo = mainGraph.addOperation(w, doGradient=True)
           [f EXCEPT !.graph = addOperation(f.graph, f.w, TRUE, FALSE, FALSE),
                     !.wo = Len(f.graph.operations) + 1]
      [] k = 6 ->   \* 57: bo = mainGraph.addOperation(b, doGradient=True)
           [f EXCEPT !.graph = addOperation(f.graph, f.b, TRUE, FALSE, FALSE),
                     !.bo = Len(f.graph.operations) + 1]
      [] k = 7 ->   \* 59-61: mmo = addOperation(MatMatmulOperation(inputOperation, wo))
           LET mm == MatMatmulOperation(f.graph, f.inputOperation, f.wo) IN
           IF mm.raised # "none" THEN Raised(f, mm.raised)
           ELSE [f EXCEPT !.graph = addOperation(f.graph, mm.node, FALSE, FALSE, FALSE),
                          !.mmo = Len(f.graph.operations) + 1]
      [] k = 8 ->   \* 62-64: addo = addOperation(AddOperation(mmo, bo))
           [f EXCEPT !.graph = addOperation(f.graph, AddOperation(f.graph, f.mmo, f.bo),
                                            FALSE, FALSE, FALSE),
                     !.addo = Len(f.graph.operations) + 1]
      [] k = 9 ->   \* 66-71
           DenseDropout(f, dropoutRate)
      [] k = 10 ->  \* 74: beta = addOperation(generateRandomVariable((1, nOutputNodes)),
                    \*                         doGradient=True)
           LET v == generateRandomVariable(<<1, nOutputNodes>>, FALSE, 0) IN
           IF ~batchNormalisation THEN f
           ELSE IF v.raised # "none" THEN Raised(f, v.raised)
           ELSE [f EXCEPT !.graph = addOperation(f.graph, v.node, TRUE, FALSE, FALSE),
                          !.beta = Len(f.graph.operations) + 1]
      [] k = 11 ->  \* 75: gamma likewise
           LET v == generateRandomVariable(<<1, nOutputNodes>>, FALSE, 0) IN
           IF ~batchNormalisation THEN f
           ELSE IF v.raised # "none" THEN Raised(f, v.raised)
           ELSE [f EXCEPT !.graph = addOperation(f.graph, v.node, TRUE, FALSE, FALSE),
                          !.gamma = Len(f.graph.operations) + 1]
      [] k = 12 ->  \* 76-78: bnorm = addOperation(BatchNormalisationOperation(
                    \*            dpo, beta, gamma)), else bnorm = dpo
           IF batchNormalisation
           THEN [f EXCEPT !.graph = addOperation(f.graph,
                                      BatchNormalisationOperation(f.graph, f.dpo,
                                                                  f.beta, f.gamma),
                                      FALSE, FALSE, FALSE),
                          !.bnorm = Len(f.graph.operations) + 1]
           ELSE [f EXCEPT !.bnorm = f.dpo]
      [] k = 13 ->  \* 80-82
           DenseActivation(f, activation)
      [] k = 14 ->  \* 83: return acto
           [f EXCEPT !.ret = f.acto]

RECURSIVE DenseFrom(_, _, _, _, _, _)
\* runs the statements from the k-th on, until one raises or the function returns
DenseFrom(k, f, nOutputNodes, activation, dropoutRate, batchNormalisation) ==
    IF k > 14 \/ f.raised # "none" THEN f
    ELSE CHOOSE y \in
           {DenseFrom(k + 1, f2, nOutputNodes, activation, dropoutRate, batchNormalisation) :
              f2 \in {DenseStmt(k, f, nOutputNodes, activation, dropoutRate,
                                batchNormalisation)}} : TRUE

\* addDenseLayer(mainGraph, nOutputNodes, inputOperation=None,
\*               activation=ReLUActivation, dropoutRate=0, batchNormalisation=False)
addDenseLayer(g, nOutputNodes, inputOperation, activation, dropoutRate, batchNormalisation) ==
    CHOOSE y \in
      {[graph |-> f.graph, ret |-> f.ret, raised |-> f.raised] :
         f \in {DenseFrom(1, DenseFrame(g, inputOperation), nOutputNodes, activation,
                          dropoutRate, batchNormalisation)}} : TRUE

\* ------------------------------------------ neuralNetwork.addConv2dLayer

ConvFrame(g, inputOperation) ==
    [graph |-> g, raised |-> "none", ret |-> None,
     inputOperation |-> inputOperation, C |-> 0,
     w |-> Variable(<<>>), b |-> Variable(<<>>),
     filterWop |-> None, opConv2d |-> None, filterBop |-> None, addConv2d |-> None,
     beta |-> None, gamma |-> None, bnorm |-> None, actop |-> None, poolOP |-> None]

\* lines 138-139: w = generateRandomVariable(
\*     shape=(nFilters, C, filterHeigth, filterWidth), transpose=False,
\*     nInputs=(filterHeigth * filterWidth * C))
ConvFilter(nFilters, C, filterHeigth, filterWidth) ==
    generateRandomVariable(<<nFilters, C, filterHeigth, filterWidth>>,
                           FALSE, filterHeigth * filterWidth * C)

\* line 140: b = generateRandomVariable(shape=(1, nFilters, 1, 1),
\*                                        transpose=False, nInputs=1)
ConvBias(nFilters) == generateRandomVariable(<<1, nFilters, 1, 1>>, FALSE, 1)

\* lines 160-163 with poolHeight and poolWidth handed over in each other's place
ConvPoolSwapped(g, actop, poolHeight, poolWidth, poolStride) ==
    MaxPoolOperation(g, actop, poolWidth, poolHeight, poolStride)

\* lines 160-163: pooling(inputA=actop, poolHeight=poolHeight,
\*                        poolWidth=poolWidth, stride=poolStride)
ConvPool(g, actop, poolHeight, poolWidth, poolStride) ==
    MaxPoolOperation(g, actop, poolHeight, poolWidth, poolStride)

\* the statements of addConv2dLayer, lines 136-165, in program order.  The
\* filter is registered (line 142) before the convolution node is constructed
\* (line 143); no statement of the builder inspects padding itself.
ConvStmt(k, f, nFilters, filterHeigth, filterWidth, padding, convStride, activation, batchNormalisation, poolHeight, poolWidth, poolStride) ==
    CASE k = 1 ->   \* 136: N, C, H, W = inputOperation.shape
           IF f.inputOperation = None THEN Raised(f, "AttributeError")
           ELSE IF Len(f.graph.operations[f.inputOperation].shape) # 4
                THEN Raised(f, "ValueError")
           ELSE [f EXCEPT !.C = f.graph.operations[f.inputOperation].shape[2]]
      [] k = 2 ->   \* 138-139
           LET w == ConvFilter(nFilters, f.C, filterHeigth, filterWidth) IN
           IF w.raised # "none" THEN Raised(f, w.raised) ELSE [f EXCEPT !.w = w.node]
      [] k = 3 ->   \* 140
           LET b == ConvBias(nFilters) IN
           IF b.raised # "none" THEN Raised(f, b.raised) ELSE [f EXCEPT !.b = b.node]
      [] k = 4 ->   \* 142: filterWop = addOperation(w, doGradient=True,
                    \*                               feederOperation=False)
           [f EXCEPT !.graph = addOperation(f.graph, f.w, TRUE, FALSE, FALSE),
                     !.filterWop = Len(f.graph.operations) + 1]
      [] k = 5 ->   \* 143-144: opConv2d = addOperation(Conv2dOperation(
                    \*     inputOperation, filterWop, stride=convStride,
                    \*     paddingMethod=padding))
           LET conv == Conv2dOperation(f.graph, f.inputOperation, f.filterWop,
                                       convStride, padding) IN
           IF conv.raised # "none" THEN Raised(f, conv.raised)
           ELSE [f EXCEPT !.graph = addOperation(f.graph, conv.node, FALSE, FALSE, FALSE),
                          !.opConv2d = Len(f.graph.operations) + 1]
      [] k = 6 ->   \* 146: filterBop = addOperation(b, doGradient=True,
                    \*                               feederOperation=False)
           [f EXCEPT !.graph = addOperation(f.graph, f.b, TRUE, FALSE, FALSE),
                     !.filterBop = Len(f.graph.operations) + 1]
      [] k = 7 ->   \* 147: addConv2d = addOperation(AddOperation(opConv2d, filterBop))
           [f EXCEPT !.graph = addOperation(f.graph,
                                            AddOperation(f.graph, f.opConv2d, f.filterBop),
                                            FALSE, FALSE, FALSE),
                     !.addConv2d = Len(f.graph.operations) + 1]
      [] k = 8 ->   \* 150: beta = addOperation(generateRandomVariable(
                    \*            (1, *addConv2d.shape[1:])), doGradient=True)
           LET v == generateRandomVariable(
                      <<1>> \o Tail(f.graph.operations[f.addConv2d].shape), FALSE, 0) IN
           IF ~batchNormalisation THEN f
           ELSE IF v.raised # "none" THEN Raised(f, v.raised)
           ELSE [f EXCEPT !.graph = addOperation(f.graph, v.node, TRUE, FALSE, FALSE),
                          !.beta = Len(f.graph.operations) + 1]
      [] k = 9 ->   \* 151: gamma likewise
           LET v == generateRandomVariable(
                      <<1>> \o Tail(f.graph.operations[f.addConv2d].shape), FALSE, 0) IN
           IF ~batchNormalisation THEN f
           ELSE IF v.raised # "none" THEN Raised(f, v.raised)
           ELSE [f EXCEPT !.graph = addOperation(f.graph, v.node, TRUE, FALSE, FALSE),
                          !.gamma = Len(f.graph.operations) + 1]
      [] k = 10 ->  \* 152-154: bnorm = addOperation(BatchNormalisationOperation(
                    \*             addConv2d, beta, gamma)), else bnorm = addConv2d
           IF batchNormalisation
           THEN [f EXCEPT !.graph = addOperation(f.graph,
                                      BatchNormalisationOperation(f.graph, f.addConv2d,
                                                                  f.beta, f.gamma),
                                      FALSE, FALSE, FALSE),
                          !.bnorm = Len(f.graph.operations) + 1]
           ELSE [f EXCEPT !.bnorm = f.addConv2d]
      [] k = 11 ->  \* 156-158: actop = addOperation(activation(bnorm),
                    \*                doGradient=False, finalOperation=False)
           [f EXCEPT !.graph = addOperation(f.graph,
                                            Activation(f.graph, activation, f.bnorm),
                                            FALSE, FALSE, FALSE),
                     !.actop = Len(f.graph.operations) + 1]
      [] k = 12 ->  \* 160-163: poolOP = addOperation(pooling(...))
           LET pool == ConvPool(f.graph, f.actop, poolHeight, poolWidth, poolStride) IN
           IF pool.raised # "none" THEN Raised(f, pool.raised)
           ELSE [f EXCEPT !.graph = addOperation(f.graph, pool.node, FALSE, FALSE, FALSE),
                          !.poolOP = Len(f.graph.operations) + 1]
      [] k = 13 ->  \* 165: return poolOP
           [f EXCEPT !.ret = f.poolOP]

RECURSIVE ConvFrom(_, _, _, _, _, _, _, _, _, _, _, _)
\* runs the statements from the k-th on, until one raises or the function returns
ConvFrom(k, f, nFilters, filterHeigth, filterWidth, padding, convStride, activation, batchNormalisation, poolHeight, poolWidth, poolStride) ==
    IF k > 13 \/ f.raised # "none" THEN f
    ELSE CHOOSE y \in
           {ConvFrom(k + 1, f2, nFilters, filterHeigth, filterWidth, padding, convStride,
                     activation, batchNormalisation, poolHeight, poolWidth, poolStride) :
              f2 \in {ConvStmt(k, f, nFilters, filterHeigth, filterWidth, padding,
                               convStride, activation, batchNormalisation,
                               poolHeight, poolWidth, poolStride)}} : TRUE

\* addConv2dLayer(mainGraph, inputOperation=None, nFilters=1, filterHeigth=2,
\*                filterWidth=2, padding="SAME", convStride=1,
\*                activation=ReLUActivation, batchNormalisation=False,
\*                pooling=MaxPoolOperation, poolHeight=2, poolWidth=2, poolStride=2)
addConv2dLayer(g, inputOperation, nFilters, filterHeigth, filterWidth, padding, convStride, activation, batchNormalisation, poolHeight, poolWidth, poolStride) ==
    CHOOSE y \in
      {[graph |-> f.graph, ret |-> f.ret, raised |-> f.raised] :
         f \in {ConvFrom(1, ConvFrame(g, inputOperation), nFilters, filterHeigth,
                         filterWidth, padding, convStride, activation,
                         batchNormalisation, poolHeight, poolWidth, poolStride)}} : TRUE

\* ------------------------------------------------ run-time state of a graph

trainVars == <<store, pc, call, steps, returned, ref>>
scriptVars == <<dataset, scriptPc, scriptError, scriptEnv, defined, stdout>>

\* A value is the set of the sources it was computed from: <<"data", d, 0>>
\* a data batch, <<"labels", l, 0>> a label batch, <<"p", v, n>> the slice of
\* parameter vector v held by node n, <<"rng", n, r>> the random mask node n
\* drew in a pass whose random draws were r.  Two values are equal exactly when
\* they were computed from the same sources.  Null: no value held.
Null == {}

NodeIds(g) == 1..Len(g.operations)
IsVariable(g, n) == g.operations[n].op = "Variable"

\* the values held right after construction: the feeder holds the training
\* set X, every other Variable its initial values, the cost node the labels Y
InitialStore(g) ==
    [result   |-> [n \in NodeIds(g) |->
                     IF ~IsVariable(g, n) THEN Null
                     ELSE IF n = g.feederOperation THEN {<<"data", 0, 0>>}
                     ELSE {<<"p", 0, n>>}],
     gradient |-> [n \in NodeIds(g) |-> Null],
     labels   |-> 0]

\* feederOperation.assignData(data)
assignData(g, s, data) ==
    [s EXCEPT !.result[g.feederOperation] = {<<"data", data, 0>>}]

\* Graph.resetAll(): every operation drops its cached result and every node
\* its gradient; a Variable keeps the value it holds
resetAll(g, s) ==
    [s EXCEPT !.result   = [n \in NodeIds(g) |->
                              IF IsVariable(g, n) THEN s.result[n] ELSE Null],
              !.gradient = [n \in NodeIds(g) |-> Null]]

\* finalOperation.assignLabels(labels)
assignLabels(g, s, labels) == [s EXCEPT !.labels = labels]

\* Graph.attachParameters(p): every trainable node takes its slice of p
attachParameters(g, s, p) ==
    [s EXCEPT !.result = [n \in NodeIds(g) |->
                            IF g.operations[n].doGradient
                            THEN {<<"p", p, n>>} ELSE s.result[n]]]

\* the value of node n given the values res of the nodes before it: a cached
\* result is returned as is; a dropout node draws its mask; the cost node
\* reads its labels
Perform(g, s, res, n, rng) ==
    LET node == g.operations[n]
        ins  == UNION {res[node.inputs[i]] : i \in 1..Len(node.inputs)}
    IN  IF s.result[n] # Null THEN s.result[n]
        ELSE IF node.op = "Dropout" THEN ins \cup {<<"rng", n, rng>>}
        ELSE IF node.op = "CrossEntropyCostSoftmax"
             THEN ins \cup {<<"labels", s.labels, 0>>}
        ELSE ins

RECURSIVE Evaluate(_, _, _, _, _)
\* the results of nodes n.. given those of the nodes before n (a node's inputs
\* are registered before it)
Evaluate(g, s, res, n, rng) ==
    IF n > Len(g.operations) THEN res
    ELSE CHOOSE y \in {Evaluate(g, s, r, n + 1, rng) :
                         r \in {[res EXCEPT ![n] = Perform(g, s, res, n, rng)]}} : TRUE

\* Graph.feedForward(): evaluates the graph up to the final operation, each
\* node caching its result; rng stands for the random draws of this pass
feedForward(g, s, rng) == [s EXCEPT !.result = Evaluate(g, s, s.result, 1, rng)]

\* the cost feedForward returns
Cost(g, s) == IF g.finalOperation = None THEN Null ELSE s.result[g.finalOperation]

\* Graph.feedBackward(): every trainable node receives the gradient of the
\* cost with respect to itself (kept if one is already held)
feedBackward(g, s) ==
    [s EXCEPT !.gradient = [n \in NodeIds(g) |->
                              IF g.operations[n].doGradient /\ s.gradient[n] = Null
                              THEN Cost(g, s) \cup {<<"wrt", n, 0>>}
                              ELSE s.gradient[n]]]

\* Graph.unrollGradients(): the trainable nodes' gradients, flattened in the
\* order in which they were registered
unrollGradients(g, s) ==
    [i \in 1..Len(g.gradientOps) |-> s.gradient[g.gradientOps[i]]]

\* CrossEntropyCostSoftmax(a, Y): a scalar
CrossEntropyCostSoftmax(g, a) == Node("CrossEntropyCostSoftmax", <<a>>, <<1>>)

NoArgs == [p |-> 0, data |-> 0, labels |-> 0, rng |-> 0, c |-> Null, g |-> <<>>]

TrainIdle(g) ==
    /\ store = InitialStore(g)
    /\ pc = 0
    /\ call = NoArgs
    /\ steps = <<>>
    /\ returned = NoArgs
    /\ ref = NoArgs

NoEnv ==
    [feed |-> None, feedDrop |-> None, cnn1 |-> None, cnn2 |-> None,
     flattenOp |-> None, flattenDrop |-> None, l1 |-> None, l2 |-> None,
     fcost |-> None, params |-> 0]

ScriptNotStarted ==
    /\ dataset = <<>>
    /\ scriptPc = 0
    /\ scriptError = "none"
    /\ scriptEnv = NoEnv
    /\ defined = {}
    /\ stdout = <<>>

\* ------------------------------------------------- controlTrainCNN.py

\* the state a statement of the script works on: the graph, the run-time
\* values of its nodes, the names bound to nodes, the output, and the
\* exception raised ("none" while the script runs)
Running(g, s, env, out) ==
    [graph |-> g, store |-> s, env |-> env, out |-> out, raised |-> "none"]
Abort(st, exc) == [st EXCEPT !.raised = exc]

\* registers node with the graph and binds the name to it
Register(st, name, node, doGradient, finalOperation, feederOperation) ==
    CHOOSE y \in
      {[st EXCEPT !.graph = g, !.store = InitialStore(g),
                  !.env = [st.env EXCEPT ![name] = Last(g)]] :
         g \in {addOperation(st.graph, node, doGradient, finalOperation,
                             feederOperation)}} : TRUE

\* binds the name to what a layer builder returned, or aborts with what it raised
Built(st, name, result) ==
    CHOOSE y \in
      {IF r.raised # "none"
       THEN [st EXCEPT !.graph = r.graph, !.store = InitialStore(r.graph),
                       !.raised = r.raised]
       ELSE [st EXCEPT !.graph = r.graph, !.store = InitialStore(r.graph),
                       !.env = [st.env EXCEPT ![name] = r.ret]] :
         r \in {result}} : TRUE

\* line 30: feed = mainGraph.addOperation(ga.Variable(X), doGradient=False,
\*                                        feederOperation=True)
StmtFeed(st, X) == Register(st, "feed", Variable(X), FALSE, FALSE, TRUE)

\* lines 31-32: feedDrop = mainGraph.addOperation(
\*     ga.DropoutOperation(feed, dropValueS), doGradient=False, finalOperation=False)
StmtFeedDrop(st) ==
    Register(st, "feedDrop", DropoutOperation(st.graph, st.env.feed, dropValueS),
             FALSE, FALSE, FALSE)

\* lines 34-45: cnn1 = ga.addConv2dLayer(mainGraph, inputOperation=feedDrop,
\*     nFilters=20, filterHeigth=5, filterWidth=5, padding="SAME", convStride=1,
\*     activation=ga.ReLUActivation, pooling=ga.MaxPoolOperation,
\*     poolHeight=2, poolWidth=2, poolStride=2)
StmtCnn1(st) ==
    Built(st, "cnn1",
          addConv2dLayer(st.graph, st.env.feedDrop, 20, 5, 5, "SAME", 1,
                         "ReLUActivation", FALSE, 2, 2, 2))

\* lines 47-58: cnn2 = ga.addConv2dLayer(mainGraph, inputOperation=cnn1,
\*     nFilters=50, ... the rest as for cnn1)
StmtCnn2(st) ==
    Built(st, "cnn2",
          addConv2dLayer(st.graph, st.env.cnn1, 50, 5, 5, "SAME", 1,
                         "ReLUActivation", FALSE, 2, 2, 2))

\* line 60: flattenOp = mainGraph.addOperation(ga.FlattenFeaturesOperation(cnn2))
StmtFlattenOp(st) ==
    LET f == FlattenFeaturesOperation(st.graph, st.env.cnn2) IN
    IF f.raised # "none" THEN Abort(st, f.raised)
    ELSE Register(st, "flattenOp", f.node, FALSE, FALSE, FALSE)

\* lines 61-62: flattenDrop = mainGraph.addOperation(
\*     ga.DropoutOperation(flattenOp, dropValueL), doGradient=False, finalOperation=False)
StmtFlattenDrop(st) ==
    Register(st, "flattenDrop",
             DropoutOperation(st.graph, st.env.flattenOp, dropValueL),
             FALSE, FALSE, FALSE)

\* the parameters addDenseLayer declares (neuralNetwork.py lines 14-18)
addDenseLayerParameters ==
    {"mainGraph", "nOutputNodes", "inputOperation", "activation", "dropoutRate",
     "batchNormalisation"}

\* the keywords of the two addDenseLayer calls of the script (lines 65-69, 71-75)
DenseCallKeywords == {"inputOperation", "activation", "dropoutRate", "w", "b"}

\* a call with a keyword the function does not declare is a TypeError
CallAccepted(keywords, parameters) == keywords \subseteq parameters

\* lines 64-69, the layer the call asks for: 500 nodes on flattenDrop, ReLU,
\* dropoutRate=dropValueL
DenseL1(st) ==
    Built(st, "l1",
          addDenseLayer(st.graph, 500, st.env.flattenDrop, "ReLUActivation",
                        dropValueL, FALSE))

\* lines 70-75, the layer the call asks for: 10 nodes on l1, softmax, dropoutRate=0.0
DenseL2(st) ==
    Built(st, "l2",
          addDenseLayer(st.graph, 10, st.env.l1, "SoftmaxActivation", 0, FALSE))

\* lines 64-69: l1 = ga.addDenseLayer(mainGraph, 500, inputOperation=flattenDrop,
\*     activation=ga.ReLUActivation, dropoutRate=dropValueL, w=None, b=None)
StmtL1(st) ==
    IF CallAccepted(DenseCallKeywords, addDenseLayerParameters)
    THEN DenseL1(st) ELSE Abort(st, "TypeError")

\* lines 70-75: l2 = ga.addDenseLayer(mainGraph, 10, inputOperation=l1,
\*     activation=ga.SoftmaxActivation, dropoutRate=0.0, w=None, b=None)
StmtL2(st) ==
    IF CallAccepted(DenseCallKeywords, addDenseLayerParameters)
    THEN DenseL2(st) ELSE Abort(st, "TypeError")

\* lines 76-79: fcost = mainGraph.addOperation(ga.CrossEntropyCostSoftmax(l2, Y),
\*                                             doGradient=False, finalOperation=True)
StmtFcost(st) ==
    Register(st, "fcost", CrossEntropyCostSoftmax(st.graph, st.env.l2),
             FALSE, TRUE, FALSE)

\* line 117: mainGraph.attachParameters(params)
StmtAttach(st) ==
    [st EXCEPT !.store = attachParameters(st.graph, st.store, st.env.params)]

\* lines 119-124: the graph is reset, pickled and read back
StmtPersist(st) == [st EXCEPT !.store = resetAll(st.graph, st.store)]

\* lines 126-129: print(...)
StmtPrint(st, text) == [st EXCEPT !.out = Append(st.out, text)]

\* names the interpreter and the imports of lines 1-4 provide
Builtins == {"ga", "np", "pickle", "sys", "str", "print", "open"}

\* names lines 9-26 bind
LoadedNames ==
    {"pickleFilename", "fp", "allDatasets", "X", "Y", "Xtest", "Ytest",
     "Xvalid", "Yvalid", "index", "dropValueL", "dropValueS"}

Stmt(label, line, target, reads) ==
    [label |-> label, line |-> line, target |-> target, reads |-> reads]

\* the statements of the script from line 29 on, in program order, each with
\* the name it binds and the names it reads
Script ==
    << Stmt("Graph", 29, "mainGraph", {"ga"}),
       Stmt("feed", 30, "feed", {"mainGraph", "ga", "X"}),
       Stmt("feedDrop", 31, "feedDrop", {"mainGraph", "ga", "feed", "dropValueS"}),
       Stmt("cnn1", 34, "cnn1", {"ga", "mainGraph", "feedDrop"}),
       Stmt("cnn2", 47, "cnn2", {"ga", "mainGraph", "cnn1"}),
       Stmt("flattenOp", 60, "flattenOp", {"mainGraph", "ga", "cnn2"}),
       Stmt("flattenDrop", 61, "flattenDrop",
            {"mainGraph", "ga", "flattenOp", "dropValueL"}),
       Stmt("l1", 64, "l1", {"ga", "mainGraph", "flattenDrop", "dropValueL"}),
       Stmt("l2", 70, "l2", {"ga", "mainGraph", "l1"}),
       Stmt("fcost", 76, "fcost", {"mainGraph", "ga", "l2", "Y"}),
       Stmt("def fprime", 82, "fprime", {}),
       Stmt("param0", 93, "param0", {"mainGraph"}),
       Stmt("adaGrad", 94, "adaGrad", {"ga", "X", "Y", "param0", "fprime"}),
       Stmt("pickleFilename", 106, "pickleFilename", {"str", "simulationIndex"}),
       Stmt("minimize", 113, "params", {"adaGrad", "pickleFilename"}),
       Stmt("attachParameters", 117, "mainGraph", {"mainGraph", "params"}),
       Stmt("pickleFileName", 119, "pickleFileName", {"str", "index"}),
       Stmt("dump", 120, "fp", {"open", "pickleFileName", "mainGraph", "pickle"}),
       Stmt("load", 123, "mainGraph", {"open", "pickleFileName", "pickle"}),
       Stmt("print trained", 126, "index", {"print", "index"}),
       Stmt("print train accuracy", 127, "index", {"print", "ga", "mainGraph", "X", "Y"}),
       Stmt("print cv accuracy", 128, "index",
            {"print", "ga", "mainGraph", "Xvalid", "Yvalid"}),
       Stmt("print test accuracy", 129, "index",
            {"print", "ga", "mainGraph", "Xtest", "Ytest"}) >>

\* shape of one example of the data set
ExampleShape == <<1, 28, 28>>

\* the effect of one statement; params is the vector minimize returns.  A
\* statement reading a name that is not bound raises NameError.
Exec(stmt, st, names, X, params) ==
    IF ~(stmt.reads \subseteq names \cup Builtins) THEN Abort(st, "NameError")
    ELSE CASE stmt.label = "Graph" ->
                [st EXCEPT !.graph = EmptyGraph, !.store = InitialStore(EmptyGraph)]
           [] stmt.label = "feed" -> StmtFeed(st, X)
           [] stmt.label = "feedDrop" -> StmtFeedDrop(st)
           [] stmt.label = "cnn1" -> StmtCnn1(st)
           [] stmt.label = "cnn2" -> StmtCnn2(st)
           [] stmt.label = "flattenOp" -> StmtFlattenOp(st)
           [] stmt.label = "flattenDrop" -> StmtFlattenDrop(st)
           [] stmt.label = "l1" -> StmtL1(st)
           [] stmt.label = "l2" -> StmtL2(st)
           [] stmt.label = "fcost" -> StmtFcost(st)
           [] stmt.label = "minimize" -> [st EXCEPT !.env.params = params]
           [] stmt.label = "attachParameters" -> StmtAttach(st)
           [] stmt.label = "dump" -> StmtPersist(st)
           [] stmt.label \in {"print trained", "print train accuracy",
                              "print cv accuracy", "print test accuracy"}
                -> StmtPrint(st, stmt.label)
           [] OTHER -> st


\* ----------------------------------------------------- building a graph

NoCall ==
    [fn |-> "none", inputOperation |-> None, nOutputNodes |-> 0,
     activation |-> "none", dropoutRate |-> 0, batchNormalisation |-> FALSE,
     nFilters |-> 0, filterHeigth |-> 0, filterWidth |-> 0, padding |-> "none",
     convStride |-> 0, poolHeight |-> 0, poolWidth |-> 0, poolStride |-> 0,
     before |-> EmptyGraph, ret |-> None, raised |-> "none"]

\* operations a caller can hand to a builder: none, the feeder, or the
\* operation registered last (the previous layer's output)
InputChoices(g) == {None} \cup {i \in 1..Last(g) : i = 1 \/ i = Last(g)}

InitBuild ==
    /\ mainGraph = EmptyGraph
    /\ lastCall = NoCall
    /\ nLayers = 0
    /\ TrainIdle(EmptyGraph)
    /\ ScriptNotStarted

\* controlTrainCNN.py lines 29-30: mainGraph = ga.Graph();
\* feed = mainGraph.addOperation(ga.Variable(X), doGradient=False, feederOperation=True)
AddFeeder ==
    /\ mainGraph = EmptyGraph
    /\ \E shape \in FeederShapes :
         mainGraph' = addOperation(EmptyGraph, Variable(shape), FALSE, FALSE, TRUE)
    /\ UNCHANGED <<lastCall, nLayers, trainVars, scriptVars>>

\* a caller's ga.addDenseLayer(mainGraph, nOutputNodes, ...); an exception is
\* not caught, so nothing is built after a call that raised
CallAddDenseLayer ==
    /\ mainGraph # EmptyGraph
    /\ nLayers < MaxLayers
    /\ lastCall.raised = "none"
    /\ \E nOutputNodes \in DenseOutputs, inputOperation \in InputChoices(mainGraph),
          activation \in Activations, dropoutRate \in DropoutRates,
          batchNormalisation \in BOOLEAN :
         \E r \in {addDenseLayer(mainGraph, nOutputNodes, inputOperation, activation,
                                  dropoutRate, batchNormalisation)} :
             /\ mainGraph' = r.graph
             /\ lastCall' = [NoCall EXCEPT
                    !.fn = "addDenseLayer", !.inputOperation = inputOperation,
                    !.nOutputNodes = nOutputNodes, !.activation = activation,
                    !.dropoutRate = dropoutRate,
                    !.batchNormalisation = batchNormalisation,
                    !.before = mainGraph, !.ret = r.ret, !.raised = r.raised]
    /\ nLayers' = nLayers + 1
    /\ UNCHANGED <<trainVars, scriptVars>>

\* a caller's ga.addConv2dLayer(mainGraph, inputOperation=..., ...)
CallAddConv2dLayer ==
    /\ mainGraph # EmptyGraph
    /\ nLayers < MaxLayers
    /\ lastCall.raised = "none"
    /\ \E inputOperation \in InputChoices(mainGraph), nFilters \in FilterCounts,
          filter \in FilterSizes, padding \in PaddingArgs, convStride \in ConvStrides,
          batchNormalisation \in BOOLEAN, pool \in PoolConfigs :
         \E r \in {addConv2dLayer(mainGraph, inputOperation, nFilters,
                                   filter[1], filter[2], padding, convStride,
                                   "ReLUActivation", batchNormalisation,
                                   pool[1], pool[2], pool[3])} :
             /\ mainGraph' = r.graph
             /\ lastCall' = [NoCall EXCEPT
                    !.fn = "addConv2dLayer", !.inputOperation = inputOperation,
                    !.nFilters = nFilters, !.filterHeigth = filter[1],
                    !.filterWidth = filter[2], !.padding = padding,
                    !.convStride = convStride, !.activation = "ReLUActivation",
                    !.batchNormalisation = batchNormalisation,
                    !.poolHeight = pool[1], !.poolWidth = pool[2],
                    !.poolStride = pool[3],
                    !.before = mainGraph, !.ret = r.ret, !.raised = r.raised]
    /\ nLayers' = nLayers + 1
    /\ UNCHANGED <<trainVars, scriptVars>>

vars == <<mainGraph, lastCall, nLayers, trainVars, scriptVars>>

Next == AddFeeder \/ CallAddDenseLayer \/ CallAddConv2dLayer

Spec == InitBuild /\ [][Next]_vars

\* ------------------------------------------------------ running the script

InitScript ==
    /\ mainGraph = EmptyGraph
    /\ lastCall = NoCall
    /\ nLayers = 0
    /\ TrainIdle(EmptyGraph)
    /\ ScriptNotStarted

\* lines 9-26: the pickled data set is read and its splits bound to X, Y,
\* Xtest, Ytest, Xvalid, Yvalid; index and the dropout rates are set
LoadDataset ==
    /\ scriptPc = 0
    /\ \E nTrain \in SplitSizes, nValid \in SplitSizes, nTest \in SplitSizes :
         dataset' = <<nTrain, nValid, nTest>>
    /\ defined' = LoadedNames
    /\ stdout' = <<"Training with:">>
    /\ scriptPc' = 1
    /\ UNCHANGED <<mainGraph, lastCall, nLayers, trainVars, scriptError, scriptEnv>>

\* the next statement of the script runs; an exception it raises is not
\* caught and ends the script
ScriptStep ==
    /\ scriptPc \in 1..Len(Script)
    /\ scriptError = "none"
    /\ \E params \in ParamVectors :
         \E stmt \in {Script[scriptPc]} :
         \E st \in {Exec(stmt, Running(mainGraph, store, scriptEnv, stdout),
                         defined, <<dataset[1]>> \o ExampleShape, params)} :
             /\ mainGraph' = st.graph
             /\ store' = st.store
             /\ scriptEnv' = st.env
             /\ stdout' = st.out
             /\ scriptError' = st.raised
             /\ scriptPc' = IF st.raised = "none" THEN scriptPc + 1 ELSE scriptPc
             /\ defined' = IF st.raised = "none"
                           THEN defined \cup {stmt.target} ELSE defined
    /\ UNCHANGED <<lastCall, nLayers, pc, call, steps, returned, ref, dataset>>

NextScript == LoadDataset \/ ScriptStep

SpecScript == InitScript /\ [][NextScript]_vars

\* ------------------------------------------------------------ fprime

\* fprime with resetAll moved after the labels and parameters are bound
fprimeResetAfterBinding ==
    << "assignData", "assignLabels", "attachParameters", "resetAll",
       "feedForward", "feedBackward", "unrollGradients" >>

\* fprime with the forward pass run before the parameters are restored
fprimeForwardBeforeAttach ==
    << "assignData", "resetAll", "assignLabels", "feedForward",
       "attachParameters", "feedBackward", "unrollGradients" >>

\* lines 82-90: the graph methods fprime invokes, in program order; it then
\* returns c, g
fprime ==
    << "assignData", "resetAll", "assignLabels", "attachParameters",
       "feedForward", "feedBackward", "unrollGradients" >>

\* the k-th graph-building statement of lines 30-79, the two dense layers
\* being those the calls ask for
BuildStmt(k, st) ==
    CASE k = 1 -> StmtFeed(st, <<2>> \o ExampleShape)
      [] k = 2 -> StmtFeedDrop(st)
      [] k = 3 -> StmtCnn1(st)
      [] k = 4 -> StmtCnn2(st)
      [] k = 5 -> StmtFlattenOp(st)
      [] k = 6 -> StmtFlattenDrop(st)
      [] k = 7 -> DenseL1(st)
      [] k = 8 -> DenseL2(st)
      [] k = 9 -> StmtFcost(st)

RECURSIVE Build(_)
\* the state after the first k of them
Build(k) ==
    IF k = 0
    THEN Running(EmptyGraph, InitialStore(EmptyGraph), NoEnv, <<"Training with:">>)
    ELSE CHOOSE y \in {BuildStmt(k, st) : st \in {Build(k - 1)}} : TRUE

\* the state lines 29-79 build when both dense layers are accepted
Intended == Build(9)

\* the script stands at line 113: adaGrad.minimize is about to call fprime
InitTrain ==
    /\ mainGraph = Intended.graph
    /\ lastCall = NoCall
    /\ nLayers = 0
    /\ TrainIdle(Intended.graph)
    /\ dataset = <<2, 2, 2>>
    /\ scriptPc = 15
    /\ scriptError = "none"
    /\ scriptEnv = Intended.env
    /\ defined = LoadedNames \cup {Script[i].target : i \in 1..14}
    /\ stdout = Intended.out

AtStep(name) == pc \in 1..Len(fprime) /\ fprime[pc] = name
Advance(name) == pc' = pc + 1 /\ steps' = Append(steps, name)

\* the optimiser calls function(p, data, labels).  ref keeps one of the
\* calls that have returned before this one starts, any of them.
MinimizeCallsFprime ==
    /\ pc = 0
    /\ \E p \in ParamVectors, data \in MiniBatches, labels \in LabelBatches :
         call' = [NoArgs EXCEPT !.p = p, !.data = data, !.labels = labels]
    /\ pc' = 1
    /\ steps' = <<>>
    /\ returned' = NoArgs
    /\ \E remember \in BOOLEAN :
         ref' = IF remember /\ returned # NoArgs THEN returned ELSE ref
    /\ UNCHANGED <<mainGraph, lastCall, nLayers, store, scriptVars>>

\* line 83: mainGraph.feederOperation.assignData(data)
FprimeAssignData ==
    /\ AtStep("assignData")
    /\ store' = assignData(mainGraph, store, call.data)
    /\ Advance("assignData")
    /\ UNCHANGED <<mainGraph, lastCall, nLayers, call, returned, ref, scriptVars>>

\* line 84: mainGraph.resetAll()
FprimeResetAll ==
    /\ AtStep("resetAll")
    /\ store' = resetAll(mainGraph, store)
    /\ Advance("resetAll")
    /\ UNCHANGED <<mainGraph, lastCall, nLayers, call, returned, ref, scriptVars>>

\* line 85: mainGraph.finalOperation.assignLabels(labels)
FprimeAssignLabels ==
    /\ AtStep("assignLabels")
    /\ store' = assignLabels(mainGraph, store, call.labels)
    /\ Advance("assignLabels")
    /\ UNCHANGED <<mainGraph, lastCall, nLayers, call, returned, ref, scriptVars>>

\* line 86: mainGraph.attachParameters(p)
FprimeAttachParameters ==
    /\ AtStep("attachParameters")
    /\ store' = attachParameters(mainGraph, store, call.p)
    /\ Advance("attachParameters")
    /\ UNCHANGED <<mainGraph, lastCall, nLayers, call, returned, ref, scriptVars>>

\* line 87: c = mainGraph.feedForward()
FprimeFeedForward ==
    /\ AtStep("feedForward")
    /\ \E rng \in RandomDraws :
         /\ store' = feedForward(mainGraph, store, rng)
         /\ call' = [call EXCEPT !.c = Cost(mainGraph, store'), !.rng = rng]
    /\ Advance("feedForward")
    /\ UNCHANGED <<mainGraph, lastCall, nLayers, returned, ref, scriptVars>>

\* line 88: mainGraph.feedBackward()
FprimeFeedBackward ==
    /\ AtStep("feedBackward")
    /\ store' = feedBackward(mainGraph, store)
    /\ Advance("feedBackward")
    /\ UNCHANGED <<mainGraph, lastCall, nLayers, call, returned, ref, scriptVars>>

\* line 89: g = mainGraph.unrollGradients()
FprimeUnrollGradients ==
    /\ AtStep("unrollGradients")
    /\ call' = [call EXCEPT !.g = unrollGradients(mainGraph, store)]
    /\ Advance("unrollGradients")
    /\ UNCHANGED <<mainGraph, lastCall, nLayers, store, returned, ref, scriptVars>>

\* line 90: return c, g.  The call is remembered as returned.
FprimeReturn ==
    /\ pc = Len(fprime) + 1
    /\ returned' = call
    /\ pc' = 0
    /\ UNCHANGED <<mainGraph, lastCall, nLayers, store, call, steps, ref, scriptVars>>

NextTrain ==
    \/ MinimizeCallsFprime
    \/ FprimeAssignData
    \/ FprimeResetAll
    \/ FprimeAssignLabels
    \/ FprimeAttachParameters
    \/ FprimeFeedForward
    \/ FprimeFeedBackward
    \/ FprimeUnrollGradients
    \/ FprimeReturn

SpecTrain == InitTrain /\ [][NextTrain]_vars


\* ------------------------------------------ properties of the builders

CalledDense == lastCall.fn = "addDenseLayer"
CalledConv == lastCall.fn = "addConv2dLayer"
Succeeded == lastCall.raised = "none"
Base == Len(lastCall.before.operations)
Added == Len(mainGraph.operations) - Base
\* the k-th node the last call registered, and its identity in the graph
NewId(k) == Base + k
NewOp(k) == mainGraph.operations[NewId(k)]
\* shape of the operation handed to the last call
InputShape == lastCall.before.operations[lastCall.inputOperation].shape
HasInput(rank) == lastCall.inputOperation # None /\ Len(InputShape) = rank

\* C4: a builder called with an invalid configuration (addConv2dLayer with a
\* padding outside {"SAME", "VALID"}, addDenseLayer with nOutputNodes <= 0)
\* raises ConfigurationError and leaves the graph's operations unchanged.
C4_InvalidConfigurationLeavesGraphUnchanged ==
    (\/ CalledConv /\ HasInput(4) /\ lastCall.padding \notin Paddings
     \/ CalledDense /\ HasInput(2) /\ lastCall.nOutputNodes <= 0)
    => /\ lastCall.raised = "ConfigurationError"
       /\ mainGraph.operations = lastCall.before.operations

\* C5: for an input of shape (batch, inFeatures) and nOutputNodes > 0, whatever
\* dropoutRate and batchNormalisation are, addDenseLayer returns a node of
\* shape (batch, nOutputNodes).
C5_DenseOutputShape ==
    (CalledDense /\ HasInput(2) /\ lastCall.nOutputNodes > 0)
    => /\ Succeeded
       /\ lastCall.ret \in 1..Len(mainGraph.operations)
       /\ mainGraph.operations[lastCall.ret].shape
            = <<InputShape[1], lastCall.nOutputNodes>>

\* the example of C5: input (8, 500), nOutputNodes = 10, with dropout and
\* batch normalisation, gives (8, 10)
C5_Witness ==
    /\ CalledDense /\ Succeeded
    /\ lastCall.inputOperation # None
    /\ InputShape = <<8, 500>>
    /\ lastCall.nOutputNodes = 10
    /\ lastCall.dropoutRate > 0 /\ lastCall.batchNormalisation
    /\ mainGraph.operations[lastCall.ret].shape = <<8, 10>>

\* the shape before pooling: that of the node the returned pooling node consumes
PrePoolShape == mainGraph.operations[mainGraph.operations[lastCall.ret].inputs[1]].shape
Pooled(pre) ==
    <<pre[1], pre[2],
      (pre[3] - lastCall.poolHeight) \div lastCall.poolStride + 1,
      (pre[4] - lastCall.poolWidth) \div lastCall.poolStride + 1>>
SameShape == <<InputShape[1], lastCall.nFilters, InputShape[3], InputShape[4]>>
ValidShape ==
    <<InputShape[1], lastCall.nFilters,
      InputShape[3] - lastCall.filterHeigth + 1,
      InputShape[4] - lastCall.filterWidth + 1>>
PoolFits(pre) == lastCall.poolHeight <= pre[3] /\ lastCall.poolWidth <= pre[4]

\* C6: on input (batch, channels, H, W), padding "SAME" gives the pre-pool
\* shape (batch, nFilters, H, W), padding "VALID" with convStride 1 gives
\* (batch, nFilters, H - filterHeigth + 1, W - filterWidth + 1); the returned
\* node is the pooling node and its shape is the pre-pool shape reduced by
\* the pooling window and stride.  A configuration whose filter and pooling
\* window fit is accepted.
C6_ConvOutputShape ==
    /\ (CalledConv /\ Succeeded) =>
          /\ lastCall.ret = Len(mainGraph.operations)
          /\ mainGraph.operations[lastCall.ret].op = "MaxPool"
          /\ mainGraph.operations[lastCall.ret].shape = Pooled(PrePoolShape)
          /\ lastCall.padding = "SAME" => PrePoolShape = SameShape
          /\ (lastCall.padding = "VALID" /\ lastCall.convStride = 1)
                => PrePoolShape = ValidShape
    /\ (CalledConv /\ HasInput(4) /\ lastCall.padding = "SAME" /\ PoolFits(SameShape))
          => Succeeded
    /\ (CalledConv /\ HasInput(4) /\ lastCall.padding = "VALID"
          /\ lastCall.convStride = 1
          /\ lastCall.filterHeigth <= InputShape[3]
          /\ lastCall.filterWidth <= InputShape[4] /\ PoolFits(ValidShape))
          => Succeeded

\* the example of C6: 20 filters of 5x5, SAME, stride 1, 2x2 pooling with
\* stride 2 on (8, 1, 28, 28): pre-pool (8, 20, 28, 28), returned (8, 20, 14, 14)
C6_Witness ==
    /\ CalledConv /\ Succeeded
    /\ InputShape = <<8, 1, 28, 28>>
    /\ lastCall.nFilters = 20 /\ lastCall.filterHeigth = 5 /\ lastCall.filterWidth = 5
    /\ lastCall.padding = "SAME" /\ lastCall.convStride = 1
    /\ lastCall.poolHeight = 2 /\ lastCall.poolWidth = 2 /\ lastCall.poolStride = 2
    /\ PrePoolShape = <<8, 20, 28, 28>>
    /\ mainGraph.operations[lastCall.ret].shape = <<8, 20, 14, 14>>

\* a second VALID case for C6, with a filter and a pooling window that are
\* not square
C6_ValidWitness ==
    /\ CalledConv /\ Succeeded
    /\ InputShape = <<2, 3, 6, 4>>
    /\ lastCall.padding = "VALID" /\ lastCall.convStride = 1
    /\ lastCall.filterHeigth = 1 /\ lastCall.filterWidth = 2
    /\ lastCall.poolHeight = 1 /\ lastCall.poolWidth = 2
    /\ PrePoolShape = <<2, 20, 6, 3>>
    /\ mainGraph.operations[lastCall.ret].shape = <<2, 20, 6, 2>>

\* the dropout nodes among the nodes the last call registered
NewDropouts == {k \in 1..Added : NewOp(k).op = "Dropout"}
\* what the last addDenseLayer call would have registered with this dropoutRate
AddedWithRate(rate) ==
    Len(addDenseLayer(lastCall.before, lastCall.nOutputNodes, lastCall.inputOperation,
                      lastCall.activation, rate,
                      lastCall.batchNormalisation).graph.operations) - Base

\* C7: addDenseLayer registers a dropout node iff dropoutRate > 0; with
\* dropoutRate = 0 the node after the bias-add (normalisation or activation)
\* consumes the bias-add node, and the call adds 5 nodes (8 with batch
\* normalisation), one less than the same call with a positive dropoutRate.
C7_DropoutOnlyWhenRatePositive ==
    (CalledDense /\ Succeeded) =>
       /\ (NewDropouts # {}) <=> (lastCall.dropoutRate > 0)
       /\ Cardinality(NewDropouts) <= 1
       /\ lastCall.dropoutRate = 0 =>
            /\ Added = IF lastCall.batchNormalisation THEN 8 ELSE 5
            /\ \A rate \in DropoutRates : rate > 0 => AddedWithRate(rate) = Added + 1
            /\ NewOp(4).op = "Add"
            /\ NewOp(Added).op = lastCall.activation
            /\ IF lastCall.batchNormalisation
               THEN NewOp(7).op = "BatchNormalisation" /\ NewOp(7).inputs[1] = NewId(4)
               ELSE NewOp(5).inputs = <<NewId(4)>>

C7_Witness ==
    /\ CalledDense /\ Succeeded
    /\ lastCall.dropoutRate = 0 /\ lastCall.batchNormalisation
    /\ Added = 8 /\ NewDropouts = {}
    /\ NewOp(7).inputs[1] = NewId(4)

RandomInit(shape, transpose, nInputs) ==
    [gen |-> "random", shape |-> shape, transpose |-> transpose, nInputs |-> nInputs]
ZeroInit(shape) ==
    [gen |-> "zero", shape |-> shape, transpose |-> FALSE, nInputs |-> 0]
Trainable(id) ==
    /\ mainGraph.operations[id].doGradient
    /\ \E i \in 1..Len(mainGraph.gradientOps) : mainGraph.gradientOps[i] = id
DenseWeightInit == RandomInit(<<lastCall.nOutputNodes, InputShape[2]>>, TRUE, InputShape[2])
ConvFilterInit ==
    RandomInit(<<lastCall.nFilters, InputShape[2],
                 lastCall.filterHeigth, lastCall.filterWidth>>, FALSE,
               lastCall.filterHeigth * lastCall.filterWidth * InputShape[2])

\* C8 as stated: in both builders the weight is created with fan-in-scaled
\* random values and the bias zero-filled, each registered as trainable:
\* dense weight (nOutputNodes, inFeatures) with fan-in inFeatures and bias
\* (nOutputNodes,) of zeros; conv filter (nFilters, channels, filterHeigth,
\* filterWidth) with fan-in filterHeigth * filterWidth * channels and bias
\* (1, nFilters, 1, 1) of zeros.
C8_BiasZeroFilled ==
    /\ (CalledDense /\ Succeeded) =>
          /\ NewOp(1).init = DenseWeightInit /\ Trainable(NewId(1))
          /\ NewOp(2).init = ZeroInit(<<lastCall.nOutputNodes>>) /\ Trainable(NewId(2))
    /\ (CalledConv /\ Succeeded) =>
          /\ NewOp(1).init = ConvFilterInit /\ Trainable(NewId(1))
          /\ NewOp(3).init = ZeroInit(<<1, lastCall.nFilters, 1, 1>>) /\ Trainable(NewId(3))

\* C8 amended: the weight is as stated; the bias is not zero-filled but
\* created by the same random initialiser with fan-in 1, with shape
\* (nOutputNodes,) in addDenseLayer and (1, nFilters, 1, 1) in
\* addConv2dLayer; weight and bias are each registered as trainable.
C8_BiasRandomFanInOne ==
    /\ (CalledDense /\ Succeeded) =>
          /\ NewOp(1).init = DenseWeightInit /\ Trainable(NewId(1))
          /\ NewOp(2).init = RandomInit(<<lastCall.nOutputNodes>>, FALSE, 1)
          /\ Trainable(NewId(2))
    /\ (CalledConv /\ Succeeded) =>
          /\ NewOp(1).init = ConvFilterInit /\ Trainable(NewId(1))
          /\ NewOp(3).init = RandomInit(<<1, lastCall.nFilters, 1, 1>>, FALSE, 1)
          /\ Trainable(NewId(3))

\* a convolution layer on (2, 3, 6, 4) with 20 filters of 1x2: filter of
\* fan-in 6, bias drawn at random with fan-in 1, both trainable
C8_Witness ==
    /\ CalledConv /\ Succeeded
    /\ InputShape = <<2, 3, 6, 4>>
    /\ NewOp(1).init = RandomInit(<<20, 3, 1, 2>>, FALSE, 6)
    /\ NewOp(3).init = RandomInit(<<1, 20, 1, 1>>, FALSE, 1)
    /\ NewOp(3).shape = <<1, 20, 1, 1>>
    /\ Trainable(NewId(1)) /\ Trainable(NewId(3))

\* the chain a successful addDenseLayer call registers, as a sequence of
\* [op, inputs, doGradient] with inputs given as graph identities
Link(op, inputs, doGradient) == [op |-> op, inputs |-> inputs, doGradient |-> doGradient]
ExpectedDenseChain ==
    LET head == << Link("Variable", <<>>, TRUE),
                   Link("Variable", <<>>, TRUE),
                   Link("MatMatmul", <<lastCall.inputOperation, NewId(1)>>, FALSE),
                   Link("Add", <<NewId(3), NewId(2)>>, FALSE) >>
        drop == IF lastCall.dropoutRate > 0
                THEN << Link("Dropout", <<NewId(4)>>, FALSE) >> ELSE << >>
        dpo  == NewId(4 + Len(drop))
        norm == IF lastCall.batchNormalisation
                THEN << Link("Variable", <<>>, TRUE),
                        Link("Variable", <<>>, TRUE),
                        Link("BatchNormalisation", <<dpo, dpo + 1, dpo + 2>>, FALSE) >>
                ELSE << >>
        bnorm == dpo + Len(norm)
    IN  head \o drop \o norm \o << Link(lastCall.activation, <<bnorm>>, FALSE) >>
ExpectedDenseTrainable ==
    LET d == IF lastCall.dropoutRate > 0 THEN 1 ELSE 0 IN
    <<NewId(1), NewId(2)>>
       \o (IF lastCall.batchNormalisation THEN <<NewId(5 + d), NewId(6 + d)>> ELSE << >>)

\* C9: a successful addDenseLayer call registers the chain
\* linear-transform(input, weight) -> add(bias) -> [dropout iff dropoutRate > 0]
\* -> [batch normalisation iff enabled] -> activation, each stage consuming the
\* one before; it returns the activation node, the last operation of the graph;
\* exactly weight, bias and (with normalisation) beta, gamma are registered as
\* trainable, in that order, and no other node of the layer is trainable.
C9_DenseChain ==
    (CalledDense /\ Succeeded) =>
       /\ [k \in 1..Added |-> Link(NewOp(k).op, NewOp(k).inputs, NewOp(k).doGradient)]
             = ExpectedDenseChain
       /\ lastCall.ret = Len(mainGraph.operations)
       /\ mainGraph.operations[lastCall.ret].op = lastCall.activation
       /\ mainGraph.gradientOps = lastCall.before.gradientOps \o ExpectedDenseTrainable
       /\ SubSeq(mainGraph.operations, 1, Base) = lastCall.before.operations

C9_Witness ==
    /\ CalledDense /\ Succeeded
    /\ lastCall.dropoutRate > 0 /\ lastCall.batchNormalisation
    /\ lastCall.activation = "SoftmaxActivation"
    /\ Added = 9
    /\ Base > 1
    /\ NewOp(9).op = "SoftmaxActivation" /\ NewOp(9).inputs = <<NewId(8)>>

\* C10: addDenseLayer called with inputOperation None on a graph holding at
\* least one operation takes mainGraph.operations[-1] as the layer input and
\* builds the layer from its shape instead of failing.
C10_NoneInputUsesLastOperation ==
    (/\ CalledDense /\ lastCall.inputOperation = None
     /\ Base >= 1
     /\ Len(lastCall.before.operations[Base].shape) = 2
     /\ lastCall.nOutputNodes > 0)
    => /\ Succeeded
       /\ NewOp(3).op = "MatMatmul" /\ NewOp(3).inputs[1] = Base
       /\ mainGraph.operations[lastCall.ret].shape
            = <<lastCall.before.operations[Base].shape[1], lastCall.nOutputNodes>>

\* ------------------------------------------------- properties of fprime

ExpectedOrder ==
    << "assignData", "resetAll", "assignLabels", "attachParameters",
       "feedForward", "feedBackward", "unrollGradients" >>

Returned == pc = 0 /\ returned # NoArgs

\* the parameter vectors, data batches and label batches a value was computed from
ParamsIn(value) == {a[2] : a \in {x \in value : x[1] = "p"}}
DataIn(value) == {a[2] : a \in {x \in value : x[1] = "data"}}
LabelsIn(value) == {a[2] : a \in {x \in value : x[1] = "labels"}}

\* C1: a call of fprime invokes assignData, resetAll, assignLabels,
\* attachParameters, feedForward, feedBackward, unrollGradients in exactly
\* this order, each once, and returns the cost of that forward pass with that
\* gradient vector; the forward pass runs on the current call's parameters,
\* data and labels, and the reset clears nothing the call has bound.
C1_FprimeStepOrder ==
    /\ Len(steps) <= Len(ExpectedOrder)
    /\ steps = SubSeq(ExpectedOrder, 1, Len(steps))
    /\ pc # 0 => Len(steps) = pc - 1
    /\ Returned =>
          /\ steps = ExpectedOrder
          /\ returned.c = Cost(mainGraph, store)
          /\ returned.g = unrollGradients(mainGraph, store)
          /\ ParamsIn(returned.c) = {returned.p}
          /\ DataIn(returned.c) = {returned.data}
          /\ LabelsIn(returned.c) = {returned.labels}
          /\ \A i \in 1..Len(returned.g) : returned.c \subseteq returned.g[i]

\* a call has returned after an earlier call made with other parameters,
\* data and labels
C1_Witness ==
    /\ Returned
    /\ steps = ExpectedOrder
    /\ ref # NoArgs
    /\ ref.p # returned.p /\ ref.data # returned.data /\ ref.labels # returned.labels
    /\ ParamsIn(returned.c) = {returned.p}
    /\ Len(returned.g) = Len(mainGraph.gradientOps)
    /\ Len(returned.g) = 8

SameInputs ==
    /\ Returned /\ ref # NoArgs
    /\ ref.p = returned.p /\ ref.data = returned.data /\ ref.labels = returned.labels

Accuracies == <<"print train accuracy", "print cv accuracy", "print test accuracy">>

\* C3: the script runs to its end: no statement aborts the run, and when the
\* last statement has run the accuracies of the train, validation and test
\* splits have been printed, in this order, after the graph was built,
\* trained, re-attached and persisted.
C3_ScriptPrintsAccuracies ==
    /\ scriptError = "none"
    /\ scriptPc > Len(Script) =>
          /\ Len(stdout) >= 3
          /\ SubSeq(stdout, Len(stdout) - 2, Len(stdout)) = Accuracies

====
